---- MODULE Spec2Model ----
(***************************************************************************)
(* Model of UStDbConnectSubsystem (client_unreal), the connection          *)
(* lifecycle manager that sits between the engine's subsystem lifecycle    *)
(* and the generated SpacetimeDB client SDK.                               *)
(*                                                                         *)
(* The subsystem's own fields are modelled one to one.  The SDK objects it *)
(* talks to (UDbConnection, UCredentials, FTSTicker) are modelled by the   *)
(* part of their state the subsystem can observe or change: for every      *)
(* connection ever built, whether it is active, how many Disconnect()      *)
(* requests, row-callback registrations and subscriptions it received.     *)
(* SDK callbacks are delivered as separate steps, at any time the SDK      *)
(* could deliver them, including after the subsystem dropped the handle.   *)
(* The engine drives the lifecycle: Initialize once after construction,    *)
(* Deinitialize once at session end, the Blueprint-callable operations in  *)
(* between.                                                                *)
(* Strings are numbers with 0 the empty string; identities are numbers     *)
(* with 0 the default-constructed identity.                                *)
(***************************************************************************)
EXTENDS Integers, Sequences, FiniteSets, TLC

\* ---- bounds -----------------------------------------------------------
MaxConns      == 2   \* build/connect requests issued in one run
NumIdentities == 2   \* distinct identities the server hands out
NumNames      == 2   \* distinct non-empty display names
NumTokens     == 2   \* distinct non-empty tokens

\* ---- values -----------------------------------------------------------
Null            == 0                 \* nullptr
EmptyString     == 0                 \* FString()
DefaultIdentity == 0                 \* FSpacetimeDBIdentity()
Anonymous       == -1                \* a build request without WithToken
Identities      == 1..NumIdentities
Names           == 0..NumNames       \* includes the empty string
Tokens          == 1..NumTokens

\* FPlayerType, reduced to the fields the subsystem reads.
PlayerRows == [Identity : Identities, PlayerId : {1}, DisplayName : Names]
\* The default-constructed row an index lookup returns when nothing matches.
NoRow      == [Identity |-> DefaultIdentity, PlayerId |-> 0, DisplayName |-> EmptyString]

VARIABLES
    phase,                   \* "constructed" | "initialized" | "deinitialized"
    bAutoStart,              \* config flag
    Conn,                    \* the handle: Null or an index into conns
    LocalIdentity,
    LocalPlayerDisplayName,
    TickerHandle,            \* TRUE iff TickerHandle.IsValid()
    credToken,               \* the token UCredentials holds
    conns,                   \* every connection built so far (SDK side)
    tickerAdds,              \* AddTicker calls made
    tickerRemoves,           \* RemoveTicker calls made
    lastConnectToken,        \* token of the latest on-connect callback (history)
    lastOp,                  \* the operation that produced this state (history)
    calls                    \* SDK requests / broadcasts issued by that operation

vars == <<phase, bAutoStart, Conn, LocalIdentity, LocalPlayerDisplayName,
          TickerHandle, credToken, conns, tickerAdds, tickerRemoves,
          lastConnectToken, lastOp, calls>>

\* The subsystem's own fields.
managerVars == <<Conn, LocalIdentity, LocalPlayerDisplayName, TickerHandle,
                 credToken>>

ConnIds == 1..Len(conns)

Op(name, c, row) == [op |-> name, conn |-> c, row |-> row]
Call(name, c, arg)    == [call |-> name, conn |-> c, arg |-> arg]

\* ---- SDK side ---------------------------------------------------------
\* A connection as Builder->Build() returns it.  phase is one of
\*   "connecting"    built, outcome of the attempt not yet delivered
\*   "active"        connect succeeded, IsActive() is true
\*   "cancelling"    Disconnect() requested while connecting; the outcome
\*                   callback already queued may still be delivered
\*   "disconnecting" Disconnect() requested while active; on-disconnect
\*                   not yet delivered
\*   "closed"        nothing more will be delivered for the attempt
NewConn ==
    [phase   |-> "connecting",
     discReq |-> 0,                \* Disconnect() requests received
     regs    |-> 0,                \* registrations of each row-change handler
     subs    |-> 0,                \* SubscribeToAllTables requests
     applied |-> 0]                \* on-applied callbacks delivered

IsActive(c) == conns[c].phase = "active"
\* UDbConnection creates its Db in its constructor: never null on a built handle.
HasDb(c)    == c \in ConnIds

\* UCredentials: one token, kept at TokenFilePath.
LoadToken        == credToken
SaveToken(Token) == credToken' = Token

\* What Conn->Disconnect() does to connection c.
SdkDisconnectRequested(cs, c) ==
    [cs EXCEPT ![c].discReq = @ + 1,
               ![c].phase = CASE @ = "connecting" -> "cancelling"
                              [] @ = "active"     -> "disconnecting"
                              [] OTHER            -> @]

\* ---- subsystem --------------------------------------------------------
IsConnected == Conn # Null /\ IsActive(Conn)

Init ==
    /\ phase = "constructed"
    /\ bAutoStart \in BOOLEAN
    /\ Conn = Null
    /\ LocalIdentity = DefaultIdentity
    /\ LocalPlayerDisplayName = EmptyString
    /\ TickerHandle = FALSE
    /\ credToken \in {EmptyString} \cup Tokens
    /\ conns = <<>>
    /\ tickerAdds = 0
    /\ tickerRemoves = 0
    /\ lastConnectToken = EmptyString
    /\ lastOp = Op("Construct", Null, NoRow)
    /\ calls = <<>>

\* A build that passes the cached token to the builder even when it is empty.
BuildAndStartConnection_AlwaysToken ==
    /\ Len(conns) < MaxConns
    /\ LET Token == LoadToken
           c     == Len(conns) + 1
       IN  /\ conns' = Append(conns, NewConn)
           /\ Conn'  = c
           /\ calls' = <<Call("Build", c, Token)>>

\* Builds a connection with the cached token and stores it in Conn.
BuildAndStartConnection ==
    /\ Len(conns) < MaxConns
    /\ LET Token == LoadToken
           c     == Len(conns) + 1
       IN  /\ conns' = Append(conns, NewConn)
           /\ Conn'  = c
           /\ calls' = <<Call("Build", c, IF Token # EmptyString
                                          THEN Token ELSE Anonymous)>>

\* StartConnection without its "prevent starting twice" guard.
StartConnectionBody_NoGuard == BuildAndStartConnection

StartConnectionBody ==
    IF Conn # Null /\ IsActive(Conn)
    THEN calls' = <<>> /\ UNCHANGED <<Conn, conns>>
    ELSE BuildAndStartConnection

\* Disconnect that only acts on an active handle.
DisconnectBody_OnlyIfActive ==
    IF Conn # Null /\ IsActive(Conn)
    THEN /\ conns' = SdkDisconnectRequested(conns, Conn)
         /\ calls' = <<Call("Disconnect", Conn, 0)>>
         /\ Conn'  = Null
    ELSE calls' = <<>> /\ UNCHANGED <<Conn, conns>>

\* Disconnect that forgets to clear the handle.
DisconnectBody_KeepHandle ==
    IF Conn # Null
    THEN /\ conns' = SdkDisconnectRequested(conns, Conn)
         /\ calls' = <<Call("Disconnect", Conn, 0)>>
         /\ UNCHANGED Conn
    ELSE calls' = <<>> /\ UNCHANGED <<Conn, conns>>

DisconnectBody ==
    IF Conn # Null
    THEN /\ conns' = SdkDisconnectRequested(conns, Conn)
         /\ calls' = <<Call("Disconnect", Conn, 0)>>
         /\ Conn'  = Null
    ELSE calls' = <<>> /\ UNCHANGED <<Conn, conns>>

RegisterTicker ==
    IF ~TickerHandle
    THEN TickerHandle' = TRUE /\ tickerAdds' = tickerAdds + 1
    ELSE UNCHANGED <<TickerHandle, tickerAdds>>

UnregisterTicker ==
    IF TickerHandle
    THEN TickerHandle' = FALSE /\ tickerRemoves' = tickerRemoves + 1
    ELSE UNCHANGED <<TickerHandle, tickerRemoves>>

\* Tick that pumps whenever a handle exists, active or not.
TickBody_NoActiveCheck ==
    /\ calls' = IF Conn # Null THEN <<Call("FrameTick", Conn, 0)>> ELSE <<>>
    /\ UNCHANGED <<Conn, conns>>

TickBody ==
    /\ calls' = IF IsConnected /\ Conn # Null THEN <<Call("FrameTick", Conn, 0)>> ELSE <<>>
    /\ UNCHANGED <<Conn, conns>>

\* Initialize that starts the connection whatever bAutoStart says.
Initialize_AlwaysStart ==
    /\ phase = "constructed"
    /\ phase' = "initialized"
    /\ StartConnectionBody
    /\ RegisterTicker
    /\ lastOp' = Op("Initialize", Null, NoRow)
    /\ UNCHANGED <<bAutoStart, LocalIdentity, LocalPlayerDisplayName, credToken,
                   tickerRemoves, lastConnectToken>>

\* UCredentials::Init only sets the token file path; the stored token stays.
Initialize ==
    /\ phase = "constructed"
    /\ phase' = "initialized"
    /\ IF bAutoStart THEN StartConnectionBody
                     ELSE calls' = <<>> /\ UNCHANGED <<Conn, conns>>
    /\ RegisterTicker
    /\ lastOp' = Op("Initialize", Null, NoRow)
    /\ UNCHANGED <<bAutoStart, LocalIdentity, LocalPlayerDisplayName, credToken,
                   tickerRemoves, lastConnectToken>>

\* Deinitialize that leaves the ticker registered.
Deinitialize_NoUnregister ==
    /\ phase = "initialized"
    /\ phase' = "deinitialized"
    /\ DisconnectBody
    /\ lastOp' = Op("Deinitialize", Null, NoRow)
    /\ UNCHANGED <<bAutoStart, LocalIdentity, LocalPlayerDisplayName, credToken,
                   TickerHandle, tickerAdds, tickerRemoves, lastConnectToken>>

Deinitialize ==
    /\ phase = "initialized"
    /\ phase' = "deinitialized"
    /\ UnregisterTicker
    /\ DisconnectBody
    /\ lastOp' = Op("Deinitialize", Null, NoRow)
    /\ UNCHANGED <<bAutoStart, LocalIdentity, LocalPlayerDisplayName, credToken,
                   tickerAdds, lastConnectToken>>

StartConnection ==
    /\ phase = "initialized"
    /\ StartConnectionBody
    /\ lastOp' = Op("StartConnection", Null, NoRow)
    /\ UNCHANGED <<phase, bAutoStart, LocalIdentity, LocalPlayerDisplayName,
                   TickerHandle, credToken, tickerAdds, tickerRemoves,
                   lastConnectToken>>

Disconnect ==
    /\ phase = "initialized"
    /\ DisconnectBody
    /\ lastOp' = Op("Disconnect", Null, NoRow)
    /\ UNCHANGED <<phase, bAutoStart, LocalIdentity, LocalPlayerDisplayName,
                   TickerHandle, credToken, tickerAdds, tickerRemoves,
                   lastConnectToken>>

\* Direct call of the public Tick helper; legal in every phase.
Tick ==
    /\ TickBody
    /\ lastOp' = Op("Tick", Null, NoRow)
    /\ UNCHANGED <<phase, bAutoStart, LocalIdentity, LocalPlayerDisplayName,
                   TickerHandle, credToken, tickerAdds, tickerRemoves,
                   lastConnectToken>>

\* The core ticker fires the registered delegate.
OnTick ==
    /\ TickerHandle
    /\ TickBody
    /\ lastOp' = Op("OnTick", Null, NoRow)
    /\ UNCHANGED <<phase, bAutoStart, LocalIdentity, LocalPlayerDisplayName,
                   TickerHandle, credToken, tickerAdds, tickerRemoves,
                   lastConnectToken>>

\* ---- SDK callbacks ----------------------------------------------------
\* The SDK may deliver the outcome of a connect attempt once per connection,
\* also when the subsystem has meanwhile asked that connection to disconnect
\* (a callback already queued still fires).
ConnectOutcomePending(c) == conns[c].phase \in {"connecting", "cancelling"}

\* What the SDK does to connection c when its connect succeeds.
SdkConnected(cs, c) ==
    [cs EXCEPT ![c].phase = IF @ = "connecting" THEN "active" ELSE "closed"]

\* What the SDK does to connection c when its connect fails.
SdkConnectFailed(cs, c) == [cs EXCEPT ![c].phase = "closed"]

\* An active connection drops, or a requested disconnect completes.
DisconnectPending(c) == conns[c].phase \in {"active", "disconnecting"}

\* What the SDK does to connection c when it reports the disconnect.
SdkDisconnected(cs, c) == [cs EXCEPT ![c].phase = "closed"]

\* Lines 101-115: the seven AddDynamic registrations on Conn->Db, made together.
RegisterRowCallbacks(cs) ==
    IF Conn # Null /\ HasDb(Conn)
    THEN [cs EXCEPT ![Conn].regs = @ + 1]
    ELSE cs

\* An on-connect handler that never subscribes.
SubscribeAll_Never(cs) == cs

\* Lines 120-125: SubscriptionBuilder()->OnApplied()->SubscribeToAllTables().
SubscribeAll(cs) ==
    IF Conn # Null
    THEN [cs EXCEPT ![Conn].subs = @ + 1]
    ELSE cs

\* HandleConnect that does not persist the token it was given.
HandleConnectBody_NoSave(InConn, Identity, Token) ==
    /\ UNCHANGED credToken
    /\ LocalIdentity' = Identity
    /\ conns' = SubscribeAll(RegisterRowCallbacks(SdkConnected(conns, InConn)))
    /\ calls' = (IF Conn # Null /\ HasDb(Conn)
                 THEN <<Call("AddDynamic", Conn, 0)>> ELSE <<>>)
                \o (IF Conn # Null
                    THEN <<Call("SubscribeToAllTables", Conn, 0)>> ELSE <<>>)

HandleConnectBody(InConn, Identity, Token) ==
    /\ SaveToken(Token)
    /\ LocalIdentity' = Identity
    /\ conns' = SubscribeAll(RegisterRowCallbacks(SdkConnected(conns, InConn)))
    /\ calls' = (IF Conn # Null /\ HasDb(Conn)
                 THEN <<Call("AddDynamic", Conn, 0)>> ELSE <<>>)
                \o (IF Conn # Null
                    THEN <<Call("SubscribeToAllTables", Conn, 0)>> ELSE <<>>)

\* The SDK reports that the connect of InConn succeeded.
HandleConnect(InConn, Identity, Token) ==
    /\ InConn \in ConnIds
    /\ ConnectOutcomePending(InConn)
    /\ HandleConnectBody(InConn, Identity, Token)
    /\ lastConnectToken' = Token
    /\ lastOp' = Op("HandleConnect", InConn, [NoRow EXCEPT !.Identity = Identity])
    /\ UNCHANGED <<phase, bAutoStart, Conn, LocalPlayerDisplayName, TickerHandle,
                   tickerAdds, tickerRemoves>>

HandleConnectError(c, Error) ==
    /\ c \in ConnIds
    /\ ConnectOutcomePending(c)
    /\ conns' = SdkConnectFailed(conns, c)
    /\ calls' = <<>>
    /\ lastOp' = Op("HandleConnectError", c, NoRow)
    /\ UNCHANGED <<phase, bAutoStart, Conn, LocalIdentity, LocalPlayerDisplayName,
                   TickerHandle, credToken, tickerAdds, tickerRemoves,
                   lastConnectToken>>

\* HandleDisconnect that forgets the local player.
HandleDisconnect_ClearsIdentity(InConn, Error) ==
    /\ InConn \in ConnIds
    /\ DisconnectPending(InConn)
    /\ conns' = SdkDisconnected(conns, InConn)
    /\ calls' = <<>>
    /\ LocalIdentity' = DefaultIdentity
    /\ LocalPlayerDisplayName' = EmptyString
    /\ lastOp' = Op("HandleDisconnect", InConn, NoRow)
    /\ UNCHANGED <<phase, bAutoStart, Conn, TickerHandle, credToken, tickerAdds,
                   tickerRemoves, lastConnectToken>>

\* HandleDisconnect that reconnects by itself.
HandleDisconnect_Retry(InConn, Error) ==
    /\ InConn \in ConnIds
    /\ DisconnectPending(InConn)
    /\ Len(conns) < MaxConns
    /\ conns' = Append(SdkDisconnected(conns, InConn), NewConn)
    /\ Conn' = Len(conns) + 1
    /\ calls' = <<Call("Build", Len(conns) + 1,
                       IF LoadToken # EmptyString THEN LoadToken ELSE Anonymous)>>
    /\ lastOp' = Op("HandleDisconnect", InConn, NoRow)
    /\ UNCHANGED <<phase, bAutoStart, LocalIdentity, LocalPlayerDisplayName,
                   TickerHandle, credToken, tickerAdds, tickerRemoves,
                   lastConnectToken>>

\* Delivered when an active connection drops, or once after a Disconnect()
\* request.
HandleDisconnect(InConn, Error) ==
    /\ InConn \in ConnIds
    /\ DisconnectPending(InConn)
    /\ conns' = SdkDisconnected(conns, InConn)
    /\ calls' = <<>>
    /\ lastOp' = Op("HandleDisconnect", InConn, NoRow)
    /\ UNCHANGED <<phase, bAutoStart, Conn, LocalIdentity, LocalPlayerDisplayName,
                   TickerHandle, credToken, tickerAdds, tickerRemoves,
                   lastConnectToken>>

\* Caching that accepts an empty name.
CacheDisplayName_AllowEmpty(DisplayName) ==
    IF DisplayName # LocalPlayerDisplayName
    THEN /\ LocalPlayerDisplayName' = DisplayName
         /\ calls' = <<Call("Broadcast", Null, DisplayName)>>
    ELSE /\ calls' = <<>>
         /\ UNCHANGED LocalPlayerDisplayName

\* Caching that does not compare with the cached name first.
CacheDisplayName_Refire(DisplayName) ==
    IF DisplayName # EmptyString
    THEN /\ LocalPlayerDisplayName' = DisplayName
         /\ calls' = <<Call("Broadcast", Null, DisplayName)>>
    ELSE /\ calls' = <<>>
         /\ UNCHANGED LocalPlayerDisplayName

\* Lines 164-169, 237-242, 253-258: cache a non-empty name that differs.
CacheDisplayName(DisplayName) ==
    IF DisplayName # EmptyString /\ DisplayName # LocalPlayerDisplayName
    THEN /\ LocalPlayerDisplayName' = DisplayName
         /\ calls' = <<Call("Broadcast", Null, DisplayName)>>
    ELSE /\ calls' = <<>>
         /\ UNCHANGED LocalPlayerDisplayName

\* What Context.Db->Players->Identity->Find(LocalIdentity) can return.
FindResults == {NoRow} \cup {r \in PlayerRows : r.Identity = LocalIdentity}

\* A subscription-applied handler without the check of the handle.
HandleSubscriptionAppliedBody_NoNullCheck(Player) ==
    IF Player.PlayerId = 0
    THEN calls' = <<>> /\ UNCHANGED LocalPlayerDisplayName
    ELSE CacheDisplayName(Player.DisplayName)

HandleSubscriptionAppliedBody(Player) ==
    IF Conn = Null \/ ~HasDb(Conn)
    THEN calls' = <<>> /\ UNCHANGED LocalPlayerDisplayName
    ELSE IF Player.PlayerId = 0
         THEN calls' = <<>> /\ UNCHANGED LocalPlayerDisplayName
         ELSE CacheDisplayName(Player.DisplayName)

\* Delivered once per subscription request made on connection c.
HandleSubscriptionApplied(c, Player) ==
    /\ c \in ConnIds
    /\ conns[c].applied < conns[c].subs
    /\ conns' = [conns EXCEPT ![c].applied = @ + 1]
    /\ HandleSubscriptionAppliedBody(Player)
    /\ lastOp' = Op("HandleSubscriptionApplied", Null, Player)
    /\ UNCHANGED <<phase, bAutoStart, Conn, LocalIdentity, TickerHandle, credToken,
                   tickerAdds, tickerRemoves, lastConnectToken>>

\* OnPlayerInsert that caches the name of any player.
OnPlayerInsertBody_NoIdentityCheck(NewRow) == CacheDisplayName(NewRow.DisplayName)

OnPlayerInsertBody(NewRow) ==
    IF NewRow.Identity = LocalIdentity
    THEN CacheDisplayName(NewRow.DisplayName)
    ELSE calls' = <<>> /\ UNCHANGED LocalPlayerDisplayName

OnPlayerUpdateBody(OldRow, NewRow) ==
    IF NewRow.Identity = LocalIdentity
    THEN CacheDisplayName(NewRow.DisplayName)
    ELSE calls' = <<>> /\ UNCHANGED LocalPlayerDisplayName

\* Some connection carries the row-change handlers registered by HandleConnect.
RowCallbacksRegistered == \E c \in ConnIds : conns[c].regs > 0

\* A Players table fires OnInsert.
OnPlayerInsert(NewRow) ==
    /\ RowCallbacksRegistered
    /\ OnPlayerInsertBody(NewRow)
    /\ lastOp' = Op("OnPlayerInsert", Null, NewRow)
    /\ UNCHANGED <<phase, bAutoStart, Conn, LocalIdentity, TickerHandle, credToken,
                   conns, tickerAdds, tickerRemoves, lastConnectToken>>

\* A Players table fires OnUpdate; a row keeps its identity across an update.
OnPlayerUpdate(OldRow, NewRow) ==
    /\ RowCallbacksRegistered
    /\ OldRow.Identity = NewRow.Identity
    /\ OnPlayerUpdateBody(OldRow, NewRow)
    /\ lastOp' = Op("OnPlayerUpdate", Null, NewRow)
    /\ UNCHANGED <<phase, bAutoStart, Conn, LocalIdentity, TickerHandle, credToken,
                   conns, tickerAdds, tickerRemoves, lastConnectToken>>

\* OnPlayerCharacterInsert/Update/Delete, OnEntityUpdate/Delete: log only.
LogOnlyHandlers == {"OnPlayerCharacterInsert", "OnPlayerCharacterUpdate",
                    "OnPlayerCharacterDelete", "OnEntityUpdate", "OnEntityDelete"}

OnRowLogOnly(handler) ==
    /\ RowCallbacksRegistered
    /\ handler \in LogOnlyHandlers
    /\ calls' = <<>>
    /\ lastOp' = Op("OnRowLogOnly", Null, NoRow)
    /\ UNCHANGED <<phase, bAutoStart, Conn, LocalIdentity, LocalPlayerDisplayName,
                   TickerHandle, credToken, conns, tickerAdds, tickerRemoves,
                   lastConnectToken>>

Next ==
    \/ Initialize
    \/ Deinitialize
    \/ StartConnection
    \/ Disconnect
    \/ Tick
    \/ OnTick
    \/ \E c \in ConnIds, id \in Identities, tok \in Tokens : HandleConnect(c, id, tok)
    \/ \E c \in ConnIds, err \in {EmptyString, 1} : HandleConnectError(c, err)
    \/ \E c \in ConnIds, err \in {EmptyString, 1} : HandleDisconnect(c, err)
    \/ \E c \in ConnIds, p \in FindResults : HandleSubscriptionApplied(c, p)
    \/ \E r \in PlayerRows : OnPlayerInsert(r)
    \/ \E o, r \in PlayerRows : OnPlayerUpdate(o, r)
    \/ \E h \in LogOnlyHandlers : OnRowLogOnly(h)


\* ---- claims -----------------------------------------------------------
\* Everything but the history variables lastOp and calls.
programVars == <<phase, bAutoStart, Conn, LocalIdentity, LocalPlayerDisplayName,
                 TickerHandle, credToken, conns, tickerAdds, tickerRemoves>>

\* Connections neither asked to disconnect nor closed by the SDK.
LiveConns == {c \in ConnIds : /\ conns[c].discReq = 0
                              /\ conns[c].phase \in {"connecting", "active"}}

\* C1: at most one connection handle exists at a time: among the connections
\* built by the subsystem, at most one has neither been requested to disconnect
\* nor been closed by the SDK.
C1_AtMostOneLiveConnection == Cardinality(LiveConns) <= 1

\* C2: a StartConnection call made while the handle is non-null and active
\* issues no build/connect request and leaves the handle, the connections, the
\* local identity, the cached display name and the stored token unchanged.
C2_StartIdempotentWhileConnected ==
    [][(lastOp'.op = "StartConnection" /\ Conn # Null /\ conns[Conn].phase = "active")
         => /\ calls' = <<>>
            /\ UNCHANGED programVars]_vars

\* Start, successful connect, Start again: still exactly one build request.
C2_Witness ==
    /\ lastOp.op = "StartConnection"
    /\ calls = <<>>
    /\ Len(conns) = 1
    /\ Conn = 1
    /\ conns[1].phase = "active"

\* C3: Disconnect called while a handle exists, active or still connecting,
\* issues exactly one disconnect request on that handle and leaves the handle
\* null, so IsConnected() is false right after.
C3_DisconnectClearsHandle ==
    [][(lastOp'.op = "Disconnect" /\ Conn # Null)
         => /\ calls' = <<Call("Disconnect", Conn, 0)>>
            /\ conns'[Conn].discReq = conns[Conn].discReq + 1
            /\ \A c \in ConnIds \ {Conn} : conns'[c] = conns[c]
            /\ Conn' = Null
            /\ ~IsConnected']_vars

\* Disconnect has just acted on a handle that was still connecting, after an
\* earlier Disconnect of an active handle.
C3_Witness ==
    /\ lastOp.op = "Disconnect"
    /\ Conn = Null
    /\ \E c, d \in ConnIds :
          /\ calls = <<Call("Disconnect", c, 0)>>
          /\ conns[c].phase = "cancelling" /\ conns[c].discReq = 1
          /\ conns[d].phase = "disconnecting" /\ conns[d].discReq = 1

\* C4: Disconnect called when no handle exists issues no SDK request and
\* changes nothing; and the second of two consecutive Disconnect calls issues
\* no disconnect request.
C4_DisconnectWithoutHandleIsNoOp ==
    [][/\ (lastOp'.op = "Disconnect" /\ Conn = Null)
            => (calls' = <<>> /\ UNCHANGED programVars)
       /\ (lastOp'.op = "Disconnect" /\ lastOp.op = "Disconnect")
            => (calls' = <<>> /\ UNCHANGED conns)]_vars

\* A second Disconnect, right after one that did disconnect a connection.
C4_Witness ==
    /\ lastOp.op = "Disconnect"
    /\ calls = <<>>
    /\ Conn = Null
    /\ \E c \in ConnIds : conns[c].discReq = 1

\* C5: Tick (called directly or by the ticker) issues FrameTick on the handle
\* if and only if the handle is non-null and active, and changes no state of
\* the subsystem or of the connections.
C5_TickPumpsIffConnected ==
    [][(lastOp'.op \in {"Tick", "OnTick"})
         => /\ calls' = IF Conn # Null /\ conns[Conn].phase = "active"
                        THEN <<Call("FrameTick", Conn, 0)>>
                        ELSE <<>>
            /\ UNCHANGED programVars]_vars

\* The ticker has just pumped the active connection.
C5_Witness ==
    /\ lastOp.op = "OnTick"
    /\ Conn # Null
    /\ conns[Conn].phase = "active"
    /\ calls = <<Call("FrameTick", Conn, 0)>>

\* A Player row-insert or row-update handler has just run.
PlayerRowEvent == lastOp'.op \in {"OnPlayerInsert", "OnPlayerUpdate"}

\* C6 as stated: an event for the local identity carrying a display name that
\* differs from the cached one updates the cache to it and fires the
\* notification exactly once; one carrying the cached name fires nothing.
C6_AnyDifferingNameIsCached ==
    [][(PlayerRowEvent /\ lastOp'.row.Identity = LocalIdentity)
         => IF lastOp'.row.DisplayName # LocalPlayerDisplayName
            THEN /\ LocalPlayerDisplayName' = lastOp'.row.DisplayName
                 /\ calls' = <<Call("Broadcast", Null, lastOp'.row.DisplayName)>>
            ELSE /\ UNCHANGED LocalPlayerDisplayName
                 /\ calls' = <<>>]_vars

\* C6 amended: an event for the local identity carrying a non-empty display
\* name that differs from the cached one updates the cache to it and fires the
\* notification exactly once; one carrying the cached name or the empty name
\* leaves the cache alone and fires nothing.  And whatever the step (a row
\* event, a subscription-applied callback or anything else), one notification
\* carrying the new name fires if the cached name changes, none otherwise.
C6_NonEmptyDifferingNameIsCached ==
    [][/\ (PlayerRowEvent /\ lastOp'.row.Identity = LocalIdentity)
            => IF /\ lastOp'.row.DisplayName # EmptyString
                  /\ lastOp'.row.DisplayName # LocalPlayerDisplayName
               THEN /\ LocalPlayerDisplayName' = lastOp'.row.DisplayName
                    /\ calls' = <<Call("Broadcast", Null, lastOp'.row.DisplayName)>>
               ELSE /\ UNCHANGED LocalPlayerDisplayName
                    /\ calls' = <<>>
       /\ IF LocalPlayerDisplayName' # LocalPlayerDisplayName
          THEN calls' = <<Call("Broadcast", Null, LocalPlayerDisplayName')>>
          ELSE \A i \in 1..Len(calls') : calls'[i].call # "Broadcast"]_vars

\* An insert for the local identity has just put a new name in the cache, with
\* one notification carrying it.
C6_Witness ==
    /\ lastOp.op = "OnPlayerInsert"
    /\ lastOp.row.Identity = LocalIdentity
    /\ LocalPlayerDisplayName = 2
    /\ lastOp.row.DisplayName = LocalPlayerDisplayName
    /\ calls = <<Call("Broadcast", Null, LocalPlayerDisplayName)>>

\* C7: a Player row-insert or row-update event whose identity differs from
\* the local identity never changes the cached display name and never fires
\* the notification.
C7_OtherIdentityIgnored ==
    [][(PlayerRowEvent /\ lastOp'.row.Identity # LocalIdentity)
         => /\ UNCHANGED LocalPlayerDisplayName
            /\ calls' = <<>>]_vars

\* An insert for another identity, with a non-empty name that is not the
\* cached one, has just been ignored.
C7_Witness ==
    /\ lastOp.op = "OnPlayerInsert"
    /\ LocalIdentity # DefaultIdentity
    /\ lastOp.row.Identity # LocalIdentity
    /\ lastOp.row.DisplayName # EmptyString
    /\ lastOp.row.DisplayName # LocalPlayerDisplayName
    /\ calls = <<>>

\* A build/connect request is issued in this step.
BuildStep == Len(conns') = Len(conns) + 1

\* C8: once an on-connect callback delivered token T, a credential load
\* returns T (until the next on-connect callback), and every build/connect
\* request made after it carries T.
C8_TokenRoundTrip ==
    [][/\ lastConnectToken' # EmptyString => LoadToken' = lastConnectToken'
       /\ (BuildStep /\ lastConnectToken # EmptyString)
            => calls' = <<Call("Build", Len(conns'), lastConnectToken)>>]_vars

\* A second connection has just been built with the token the first one's
\* on-connect callback delivered, which differs from the token stored at start.
C8_Witness ==
    /\ lastOp.op = "StartConnection"
    /\ Len(conns) = 2
    /\ lastConnectToken = 2
    /\ calls = <<Call("Build", 2, 2)>>

\* C9: once Deinitialize has run the ticker is unregistered and the handle is
\* null, the ticker was registered once and unregistered once, and no step
\* taken after it issues FrameTick.
C9_DeinitializeUnregistersAndDisconnects ==
    phase = "deinitialized"
        => /\ ~TickerHandle
           /\ Conn = Null
           /\ tickerAdds = 1
           /\ tickerRemoves = 1
           /\ \A i \in 1..Len(calls) : calls[i].call # "FrameTick"

\* Deinitialize has just run on a subsystem that never started a connection.
C9_Witness ==
    /\ lastOp.op = "Deinitialize"
    /\ phase = "deinitialized"
    /\ conns = <<>>
    /\ ~TickerHandle

\* C10: the on-connect-error and on-disconnect callbacks issue no SDK request
\* and change no field of the subsystem, and every build/connect request is
\* issued by a StartConnection call or by Initialize with bAutoStart.
C10_NoAutomaticRetry ==
    [][/\ lastOp'.op \in {"HandleConnectError", "HandleDisconnect"}
            => (calls' = <<>> /\ UNCHANGED managerVars /\ Len(conns') = Len(conns))
       /\ Len(conns') # Len(conns)
            => \/ lastOp'.op = "StartConnection"
               \/ lastOp'.op = "Initialize" /\ bAutoStart]_vars

\* The only connection has just been dropped: the handle still points at it
\* and no other connection was built.
C10_Witness ==
    /\ lastOp.op = "HandleDisconnect"
    /\ Len(conns) = 1
    /\ Conn = 1
    /\ conns[1].phase = "closed"
    /\ calls = <<>>

\* C11 as stated: whenever the current connection has ended (by Disconnect,
\* Deinitialize, on-disconnect or on-connect-error) the handle is null: the
\* handle never points at a connection that is neither connecting nor active.
C11_HandleNullWhenEnded ==
    Conn # Null => conns[Conn].phase \in {"connecting", "active"}

\* C11 amended: Disconnect and Deinitialize leave the handle null; on-disconnect
\* and on-connect-error leave the handle as it was, and when they end the
\* connection the handle points at, the handle stays non-null but IsConnected()
\* is false; and the handle is active only if the SDK made it so.
C11_HandleNullAfterExplicitDisconnect ==
    [][/\ lastOp'.op \in {"Disconnect", "Deinitialize"} => Conn' = Null
       /\ lastOp'.op \in {"HandleDisconnect", "HandleConnectError"}
            => /\ Conn' = Conn
               /\ lastOp'.conn = Conn => (Conn' # Null /\ ~IsConnected')
       /\ (IsConnected' /\ ~IsConnected) => lastOp'.op = "HandleConnect"]_vars

\* The connect of the connection the handle points at has just failed: the
\* handle is still non-null.
C11_Witness ==
    /\ lastOp.op = "HandleConnectError"
    /\ Conn # Null
    /\ lastOp.conn = Conn
    /\ conns[Conn].phase = "closed"
    /\ ~IsConnected

\* The SubscribeToAllTables requests among the given calls.
Subscribes(cs) == {i \in 1..Len(cs) : cs[i].call = "SubscribeToAllTables"}

\* C12 as stated: every on-connect callback persists the token, stores the
\* identity and issues exactly one subscribe-to-all-tables request.
C12_EveryConnectSubscribesOnce ==
    [][lastOp'.op = "HandleConnect"
         => /\ LoadToken' = lastConnectToken'
            /\ LocalIdentity' = lastOp'.row.Identity
            /\ Cardinality(Subscribes(calls')) = 1]_vars

\* C12 amended: every on-connect callback persists the token and stores the
\* identity, and then issues exactly one subscribe-to-all-tables request, on
\* the stored handle, if that handle is non-null and none if it is null; every
\* subscription request is issued by an on-connect callback, in the step that
\* stored its token and identity.
C12_ConnectSubscribesOnceIfHandle ==
    [][/\ lastOp'.op = "HandleConnect"
            => /\ LoadToken' = lastConnectToken'
               /\ LocalIdentity' = lastOp'.row.Identity
               /\ IF Conn # Null
                  THEN /\ Cardinality(Subscribes(calls')) = 1
                       /\ calls'[Len(calls')] = Call("SubscribeToAllTables", Conn, 0)
                       /\ conns'[Conn].subs = conns[Conn].subs + 1
                  ELSE /\ Subscribes(calls') = {}
                       /\ \A c \in ConnIds : conns'[c].subs = conns[c].subs
       /\ (\E c \in ConnIds : conns'[c].subs # conns[c].subs)
            => lastOp'.op = "HandleConnect"]_vars

\* An on-connect callback has just stored identity 2 and token 2 and
\* subscribed once on the handle.
C12_Witness ==
    /\ lastOp.op = "HandleConnect"
    /\ Conn # Null
    /\ lastOp.conn = Conn
    /\ LocalIdentity = 2
    /\ credToken = 2
    /\ conns[Conn].subs = 1
    /\ calls = <<Call("AddDynamic", Conn, 0), Call("SubscribeToAllTables", Conn, 0)>>

\* The build/connect requests among the given calls.
Builds(cs) == {i \in 1..Len(cs) : cs[i].call = "Build"}

\* C13: Initialize issues exactly one build/connect request when bAutoStart is
\* true and none when it is false, and either way leaves exactly one per-frame
\* callback registered; with bAutoStart false the handle stays null, and the
\* Manager disconnected, until StartConnection is called.
C13_InitializeStartsIffAutoStart ==
    [][/\ lastOp'.op = "Initialize"
            => /\ IF bAutoStart
                  THEN /\ Cardinality(Builds(calls')) = 1
                       /\ Len(conns') = Len(conns) + 1
                       /\ Conn' # Null
                  ELSE /\ calls' = <<>>
                       /\ conns' = conns
                       /\ Conn' = Null
               /\ TickerHandle'
               /\ tickerAdds' - tickerRemoves' = 1
       /\ (~bAutoStart /\ Conn = Null /\ conns = <<>> /\ ~UNCHANGED <<Conn, conns>>)
            => lastOp'.op = "StartConnection"]_vars

\* Initialize has just run with bAutoStart false: nothing was built and the
\* per-frame callback is registered.
C13_Witness ==
    /\ lastOp.op = "Initialize"
    /\ ~bAutoStart
    /\ conns = <<>>
    /\ Conn = Null
    /\ ~IsConnected
    /\ TickerHandle
    /\ tickerAdds = 1

\* C14: a build/connect request carries a token exactly when the cached token
\* loaded at build time is non-empty, and then it carries that token; with no
\* cached token the connection is built anonymously.
C14_BuildCarriesTokenIffCached ==
    [][BuildStep
         => /\ Len(calls') = 1
            /\ calls'[1].call = "Build"
            /\ calls'[1].conn = Conn'
            /\ (calls'[1].arg # Anonymous) <=> (credToken # EmptyString)
            /\ calls'[1].arg # Anonymous => calls'[1].arg = credToken]_vars

\* A connection has just been built anonymously because no token was cached.
C14_Witness ==
    /\ lastOp.op = "StartConnection"
    /\ credToken = EmptyString
    /\ calls = <<Call("Build", Conn, Anonymous)>>

\* C15: an on-connect or on-subscription-applied callback delivered after
\* Disconnect has cleared the handle registers no row-change callback, issues
\* no subscription request and no other call, and leaves the cached display
\* name untouched and the notification unfired.
C15_LateCallbackWithNullHandle ==
    [][(lastOp'.op \in {"HandleConnect", "HandleSubscriptionApplied"} /\ Conn = Null)
         => /\ calls' = <<>>
            /\ UNCHANGED LocalPlayerDisplayName
            /\ \A c \in ConnIds : /\ conns'[c].regs = conns[c].regs
                                  /\ conns'[c].subs = conns[c].subs]_vars

\* The subscription was applied after Disconnect cleared the handle, and the
\* local player's row carries a new name: nothing was cached or fired.
C15_Witness ==
    /\ lastOp.op = "HandleSubscriptionApplied"
    /\ Conn = Null
    /\ lastOp.row.PlayerId # 0
    /\ lastOp.row.Identity = LocalIdentity
    /\ lastOp.row.DisplayName # EmptyString
    /\ lastOp.row.DisplayName # LocalPlayerDisplayName
    /\ calls = <<>>

\* C16: the row-change registrations and the subscribe request made by an
\* on-connect callback target the connection that delivered the callback:
\* whenever HandleConnect acts on the stored handle, that handle is InConn.
C16_ConnectActsOnDeliveringConnection ==
    lastOp.op = "HandleConnect"
        => \A i \in 1..Len(calls) : calls[i].conn = lastOp.conn

\* C17: over its lifetime each connection receives at most one registration of
\* the row-change handlers and at most one subscribe-to-all-tables request.
C17_AtMostOneRegistrationPerConnection ==
    \A c \in ConnIds : conns[c].regs <= 1 /\ conns[c].subs <= 1

\* The Broadcast notifications among the given calls.
Broadcasts(cs) == {i \in 1..Len(cs) : cs[i].call = "Broadcast"}

\* C18: the cached display name is never overwritten with the empty string: a
\* row event or subscription-applied lookup that carries an empty name leaves
\* the cache unchanged and fires nothing, and every notification carries a
\* non-empty name that is the new cached value and differs from the previous.
C18_CachedNameNeverEmptied ==
    [][/\ LocalPlayerDisplayName' # LocalPlayerDisplayName
            => LocalPlayerDisplayName' # EmptyString
       /\ ( /\ lastOp'.op \in {"OnPlayerInsert", "OnPlayerUpdate",
                               "HandleSubscriptionApplied"}
            /\ lastOp'.row.DisplayName = EmptyString )
            => /\ UNCHANGED LocalPlayerDisplayName
               /\ calls' = <<>>
       /\ \A i \in Broadcasts(calls') :
            /\ calls'[i].arg # EmptyString
            /\ calls'[i].arg = LocalPlayerDisplayName'
            /\ calls'[i].arg # LocalPlayerDisplayName]_vars

\* The subscription was applied on a live handle and the local player's row
\* carries an empty name while a name is cached: the cache kept its name.
C18_Witness ==
    /\ lastOp.op = "HandleSubscriptionApplied"
    /\ Conn # Null
    /\ lastOp.row.PlayerId # 0
    /\ lastOp.row.Identity = LocalIdentity
    /\ lastOp.row.DisplayName = EmptyString
    /\ LocalPlayerDisplayName # EmptyString
    /\ calls = <<>>

\* C19: Disconnect, on-disconnect and on-connect-error leave the local
\* identity and the cached display name unchanged; the local identity changes
\* only in an on-connect callback, which leaves the cached name alone; and the
\* cached name changes only when a Player row of the local identity with a
\* different non-empty name arrives.
C19_IdentityAndNameSurviveDisconnect ==
    [][/\ lastOp'.op \in {"Disconnect", "HandleDisconnect", "HandleConnectError"}
            => UNCHANGED <<LocalIdentity, LocalPlayerDisplayName>>
       /\ LocalIdentity' # LocalIdentity => lastOp'.op = "HandleConnect"
       /\ lastOp'.op = "HandleConnect" => UNCHANGED LocalPlayerDisplayName
       /\ LocalPlayerDisplayName' # LocalPlayerDisplayName
            => /\ lastOp'.op \in {"OnPlayerInsert", "OnPlayerUpdate",
                                  "HandleSubscriptionApplied"}
               /\ lastOp'.row.Identity = LocalIdentity
               /\ lastOp'.row.DisplayName = LocalPlayerDisplayName'
               /\ LocalPlayerDisplayName' # EmptyString]_vars

\* After a disconnect the Manager has just reconnected on a second connection,
\* and the name cached before the disconnect is still cached.
C19_Witness ==
    /\ lastOp.op = "HandleConnect"
    /\ Len(conns) = 2
    /\ conns[1].phase = "closed"
    /\ conns[1].discReq = 1
    /\ lastOp.conn = 2
    /\ Conn = 2
    /\ conns[2].regs = 1
    /\ LocalIdentity = 2
    /\ LocalPlayerDisplayName # EmptyString

Spec == Init /\ [][Next]_vars
====
